---- MODULE Spec2Model ----
(***************************************************************************)
(* Parameter binding of the cli package: the five built-in parameter kinds *)
(* (boolParam, stringParam, intParam, stringsParam, intsParam), their      *)
(* Set / SetMulti / String methods, the environment fallback setFromEnv,   *)
(* the flag-name derivation mkOptStrs and the option registration mkOpt.   *)
(*                                                                         *)
(* Go strings are TLA+ strings; a Go slice is a sequence; a Go pointer is  *)
(* an address (an index) into the heap mem.                                *)
(***************************************************************************)
EXTENDS Integers, Sequences, FiniteSets, TLC

VARIABLES
    env,        \* the process environment: variable name -> value ("" = unset)
    mem,        \* the heap: a sequence of cells, a pointer is an index
    options,    \* c.options: the registered opt records, in registration order
    optionsIdx, \* c.optionsIdx: flag spelling -> index of the record in options
    caller,     \* caller[i]: the pointer the declaration of option i returned
    decl,       \* decl[i]: the declaration record (kind, Value) of option i
    calls,      \* calls[i]: the Set/SetMulti calls made on option i, in order
    panicked    \* "no", or where panic("Bug") unwound the program: "env", "cli"

vars == <<env, mem, options, optionsIdx, caller, decl, calls, panicked>>

(***************************************************************************)
(* Bounds of the model.                                                    *)
(***************************************************************************)
MaxCalls == 2   \* parser calls made on one parameter
MaxOpts == 3    \* options registered on one command (SpecCmd)

(***************************************************************************)
(* Go's strings and strconv functions, as the code uses them.              *)
(***************************************************************************)
Char(s, i) == SubSeq(s, i, i)

Range(f) == {f[i] : i \in DOMAIN f}

IsSpace(c) == c \in {" ", "\t", "\n", "\r"}

RECURSIVE TrimLeft(_)
TrimLeft(s) ==
    IF Len(s) > 0 /\ IsSpace(Char(s, 1)) THEN TrimLeft(SubSeq(s, 2, Len(s))) ELSE s

RECURSIVE TrimRight(_)
TrimRight(s) ==
    IF Len(s) > 0 /\ IsSpace(Char(s, Len(s)))
    THEN TrimRight(SubSeq(s, 1, Len(s) - 1))
    ELSE s

\* strings.TrimSpace
TrimSpace(s) == TrimRight(TrimLeft(s))

\* strings.Index for a one-character separator; 0 when sep does not occur
Index(s, sep) ==
    LET hits == {i \in 1..Len(s) : Char(s, i) = sep}
    IN  IF hits = {} THEN 0 ELSE CHOOSE i \in hits : \A j \in hits : i <= j

\* strings.Split for a one-character separator: n separators give n+1 pieces,
\* empty pieces included ("" gives one empty piece)
RECURSIVE Split(_, _)
Split(s, sep) ==
    LET i == Index(s, sep)
    IN  IF i = 0
        THEN <<s>>
        ELSE <<SubSeq(s, 1, i - 1)>> \o Split(SubSeq(s, i + 1, Len(s)), sep)

DigitChars == "0123456789"

IsDigit(c) == \E d \in 1..10 : Char(DigitChars, d) = c

DigitVal(c) == (CHOOSE d \in 1..10 : Char(DigitChars, d) = c) - 1

RECURSIVE DigitsVal(_)
DigitsVal(s) ==
    IF Len(s) = 0 THEN 0
    ELSE 10 * DigitsVal(SubSeq(s, 1, Len(s) - 1)) + DigitVal(Char(s, Len(s)))

\* the largest magnitudes of a 64-bit signed integer: 1<<63 - 1 and 1<<63
MaxInt64Digits == "9223372036854775807"

MinInt64Digits == "9223372036854775808"

RECURSIVE StripZeros(_)
StripZeros(d) ==
    IF Len(d) > 1 /\ Char(d, 1) = "0" THEN StripZeros(SubSeq(d, 2, Len(d))) ELSE d

\* a <= b for digit strings of one length
RECURSIVE DigitsLeq(_, _)
DigitsLeq(a, b) ==
    IF Len(a) = 0 THEN TRUE
    ELSE IF Char(a, 1) # Char(b, 1) THEN DigitVal(Char(a, 1)) < DigitVal(Char(b, 1))
    ELSE DigitsLeq(SubSeq(a, 2, Len(a)), SubSeq(b, 2, Len(b)))

\* the magnitude written by the digits d is at most the one written by limit
InRange(d, limit) ==
    \/ Len(StripZeros(d)) < Len(limit)
    \/ Len(StripZeros(d)) = Len(limit) /\ DigitsLeq(StripZeros(d), limit)

\* mutant: no sign is accepted
ParseIntUnsigned(s) ==
    IF Len(s) = 0 \/ \E k \in 1..Len(s) : ~IsDigit(Char(s, k))
    THEN [err |-> TRUE, i |-> 0]
    ELSE IF ~InRange(s, MaxInt64Digits)
    THEN [err |-> TRUE, i |-> 0]
    ELSE [err |-> FALSE, i |-> DigitsVal(s)]

\* strconv.ParseInt(s, 10, 64): an optional sign, then one or more decimal
\* digits (ErrSyntax otherwise); ErrRange when the value does not fit 64 bits.
ParseInt(s) ==
    LET signed == Len(s) > 0 /\ Char(s, 1) \in {"+", "-"}
        neg    == Len(s) > 0 /\ Char(s, 1) = "-"
        digits == IF signed THEN SubSeq(s, 2, Len(s)) ELSE s
    IN  IF Len(digits) = 0 \/ \E k \in 1..Len(digits) : ~IsDigit(Char(digits, k))
        THEN [err |-> TRUE, i |-> 0]
        ELSE IF ~InRange(digits, IF neg THEN MinInt64Digits ELSE MaxInt64Digits)
        THEN [err |-> TRUE, i |-> 0]
        ELSE [err |-> FALSE,
              i   |-> IF neg THEN 0 - DigitsVal(digits) ELSE DigitsVal(digits)]

\* strconv.ParseBool
ParseBool(s) ==
    IF s \in {"1", "t", "T", "TRUE", "true", "True"} THEN [err |-> FALSE, b |-> TRUE]
    ELSE IF s \in {"0", "f", "F", "FALSE", "false", "False"} THEN [err |-> FALSE, b |-> FALSE]
    ELSE [err |-> TRUE, b |-> FALSE]

RECURSIVE FormatNat(_)
FormatNat(n) ==
    IF n < 10 THEN Char(DigitChars, n + 1)
    ELSE FormatNat(n \div 10) \o Char(DigitChars, (n % 10) + 1)

\* fmt.Sprintf("%v", i) of an int
FormatInt(n) == IF n < 0 THEN "-" \o FormatNat(0 - n) ELSE FormatNat(n)

\* fmt.Sprintf("%v", b) of a bool
FormatBool(b) == IF b THEN "true" ELSE "false"

RECURSIVE QuoteChars(_)
QuoteChars(s) ==
    IF Len(s) = 0 THEN ""
    ELSE LET c == Char(s, 1)
             e == IF c = "\"" THEN "\\\""
                  ELSE IF c = "\\" THEN "\\\\"
                  ELSE IF c = "\t" THEN "\\t"
                  ELSE IF c = "\n" THEN "\\n"
                  ELSE IF c = "\r" THEN "\\r"
                  ELSE c
         IN  e \o QuoteChars(SubSeq(s, 2, Len(s)))

\* fmt.Sprintf("%#v", s) of a string: the Go-syntax quoted form
Quote(s) == "\"" \o QuoteChars(s) \o "\""

(***************************************************************************)
(* The heap.  A parameter p is [kind, into]: into is the pointer to the    *)
(* storage it writes.  Every method returns [err, p, m]: the error flag,   *)
(* the parameter (SetMulti assigns its into field) and the heap after it.  *)
(***************************************************************************)
\* new(T) / &local: a fresh cell holding v, appended to the heap
Alloc(m, v) == [m |-> Append(m, v), addr |-> Len(m) + 1]

Ret(e, p, m) == [err |-> e, p |-> p, m |-> m]

\* &boolParam{into: &into} and its like: the parameter bound to the caller's slot
NewParam(kind, slot) == [kind |-> kind, into |-> slot]

(******************************** BOOL *************************************)
\* mutant: the parsed value is written before the error is looked at
BoolParamSetEarlyWrite(bo, m, s) ==
    LET r == ParseBool(s)
    IN  Ret(r.err, bo, [m EXCEPT ![bo.into] = r.b])

BoolParamSet(bo, m, s) ==
    LET r == ParseBool(s)
    IN  IF r.err THEN Ret(TRUE, bo, m)
        ELSE Ret(FALSE, bo, [m EXCEPT ![bo.into] = r.b])

\* mutant: the value is rendered as a digit
BoolParamStringDigit(bo, m) == IF m[bo.into] THEN "1" ELSE "0"

BoolParamString(bo, m) == FormatBool(m[bo.into])

(******************************* STRING ************************************)
StringParamSet(sa, m, s) == Ret(FALSE, sa, [m EXCEPT ![sa.into] = s])

StringParamString(sa, m) == Quote(m[sa.into])

(******************************** INT **************************************)
IntParamSet(ia, m, s) ==
    LET r == ParseInt(s)
    IN  IF r.err THEN Ret(TRUE, ia, m)
        ELSE Ret(FALSE, ia, [m EXCEPT ![ia.into] = r.i])

IntParamString(ia, m) == FormatInt(m[ia.into])

(****************************** STRINGS ************************************)
StringsParamSet(sa, m, s) ==
    Ret(FALSE, sa, [m EXCEPT ![sa.into] = Append(m[sa.into], s)])

RECURSIVE JoinQuoted(_)
JoinQuoted(ss) ==
    IF Len(ss) = 0 THEN ""
    ELSE IF Len(ss) = 1 THEN Quote(ss[1])
    ELSE JoinQuoted(SubSeq(ss, 1, Len(ss) - 1)) \o ", " \o Quote(ss[Len(ss)])

StringsParamString(sa, m) == "[" \o JoinQuoted(m[sa.into]) \o "]"

\* mutant: the batch is appended to the sequence instead of replacing it
StringsParamSetMultiAppend(sa, m, vs) ==
    LET newValue == m[sa.into] \o [idx \in 1..Len(vs) |-> TrimSpace(vs[idx])]
        a        == Alloc(m, newValue)
    IN  Ret(FALSE, [sa EXCEPT !.into = a.addr], a.m)

\* newValue is a local slice; sa.into = &newValue points the parameter at it
StringsParamSetMulti(sa, m, vs) ==
    LET newValue == [idx \in 1..Len(vs) |-> TrimSpace(vs[idx])]
        a        == Alloc(m, newValue)
    IN  Ret(FALSE, [sa EXCEPT !.into = a.addr], a.m)

(******************************** INTS *************************************)
IntsParamSet(ia, m, s) ==
    LET r == ParseInt(s)
    IN  IF r.err THEN Ret(TRUE, ia, m)
        ELSE Ret(FALSE, ia, [m EXCEPT ![ia.into] = Append(m[ia.into], r.i)])

RECURSIVE JoinInts(_)
JoinInts(is) ==
    IF Len(is) = 0 THEN ""
    ELSE IF Len(is) = 1 THEN FormatInt(is[1])
    ELSE JoinInts(SubSeq(is, 1, Len(is) - 1)) \o ", " \o FormatInt(is[Len(is)])

IntsParamString(ia, m) == "[" \o JoinInts(m[ia.into]) \o "]"

\* mutant: the element is tested for emptiness and parsed without trimming
RECURSIVE IntsLoopNoTrim(_, _, _)
IntsLoopNoTrim(vs, k, newValue) ==
    IF k > Len(vs) THEN [err |-> FALSE, newValue |-> newValue]
    ELSE LET v == vs[k]
         IN  IF v = "" THEN IntsLoopNoTrim(vs, k + 1, newValue)
             ELSE LET r == ParseInt(v)
                  IN  IF r.err THEN [err |-> TRUE, newValue |-> newValue]
                      ELSE IntsLoopNoTrim(vs, k + 1, Append(newValue, r.i))

\* the loop of intsParam.SetMulti over vs[k..]: [err, newValue]
RECURSIVE IntsLoop(_, _, _)
IntsLoop(vs, k, newValue) ==
    IF k > Len(vs) THEN [err |-> FALSE, newValue |-> newValue]
    ELSE LET v == TrimSpace(vs[k])
         IN  IF v = "" THEN IntsLoop(vs, k + 1, newValue)
             ELSE LET r == ParseInt(v)
                  IN  IF r.err THEN [err |-> TRUE, newValue |-> newValue]
                      ELSE IntsLoop(vs, k + 1, Append(newValue, r.i))

\* mutant: the elements parsed before the bad one are stored on failure
IntsParamSetMultiPartial(ia, m, vs) ==
    LET l == IntsLoop(vs, 1, <<>>)
        a == Alloc(m, l.newValue)
    IN  Ret(l.err, [ia EXCEPT !.into = a.addr], a.m)

IntsParamSetMulti(ia, m, vs) ==
    LET l == IntsLoop(vs, 1, <<>>)
    IN  IF l.err THEN Ret(TRUE, ia, m)
        ELSE LET a == Alloc(m, l.newValue)
             IN  Ret(FALSE, [ia EXCEPT !.into = a.addr], a.m)

(******************************** VAR **************************************)
\* A caller-supplied flag.Value u is [kind |-> "user", into, multi, bool]:
\* multi and bool say whether its type has the methods of multiValued and
\* boolValued ("none" when it has not) and what IsMultiValued and IsBoolFlag
\* answer ("yes", "no").  It keeps a list of texts: Set appends a text that is
\* not blank, SetMulti replaces the list by a batch without empty elements.
UserSet(u, m, s) ==
    IF TrimSpace(s) = "" THEN Ret(TRUE, u, m)
    ELSE Ret(FALSE, u, [m EXCEPT ![u.into] = Append(m[u.into], s)])

UserString(u, m) == "[" \o JoinQuoted(m[u.into]) \o "]"

UserSetMulti(u, m, vs) ==
    IF \E k \in 1..Len(vs) : vs[k] = "" THEN Ret(TRUE, u, m)
    ELSE Ret(FALSE, u, [m EXCEPT ![u.into] = vs])

\* vo.Value.(multiValued) and vo.Value.(boolValued)
UserImplementsMultiValued(u) == u.multi # "none"

UserIsMultiValued(u) == u.multi = "yes"

UserImplementsBoolValued(u) == u.bool # "none"

UserIsBoolFlag(u) == u.bool = "yes"

\* panic("Bug"): no result is returned, the call unwinds
Panic(p, m) == [err |-> FALSE, p |-> p, m |-> m, panic |-> TRUE]

Panicked(r) == "panic" \in DOMAIN r

\* The wrapper vo is [kind |-> "var", Value |-> u].
VarOptSet(vo, m, s) ==
    LET r == UserSet(vo.Value, m, s)
    IN  Ret(r.err, [vo EXCEPT !.Value = r.p], r.m)

VarOptString(vo, m) == UserString(vo.Value, m)

VarOptIsBoolFlag(vo) ==
    IF UserImplementsBoolValued(vo.Value) THEN UserIsBoolFlag(vo.Value) ELSE FALSE

VarOptIsMultiValued(vo) ==
    IF UserImplementsMultiValued(vo.Value) THEN UserIsMultiValued(vo.Value) ELSE FALSE

\* mutant: the contract violation is returned as an error
VarOptSetMultiReturnsError(vo, m, vs) ==
    IF ~UserImplementsMultiValued(vo.Value) \/ ~UserIsMultiValued(vo.Value)
    THEN Ret(TRUE, vo, m)
    ELSE LET r == UserSetMulti(vo.Value, m, vs)
         IN  Ret(r.err, [vo EXCEPT !.Value = r.p], r.m)

VarOptSetMulti(vo, m, vs) ==
    IF ~UserImplementsMultiValued(vo.Value) \/ ~UserIsMultiValued(vo.Value)
    THEN Panic(vo, m)
    ELSE LET r == UserSetMulti(vo.Value, m, vs)
         IN  Ret(r.err, [vo EXCEPT !.Value = r.p], r.m)

(***************************************************************************)
(* The flag.Value interface and the optional boolValued and multiValued    *)
(* interfaces, by the dynamic type of the value.                           *)
(***************************************************************************)
Set(p, m, s) ==
    CASE p.kind = "bool"    -> BoolParamSet(p, m, s)
      [] p.kind = "string"  -> StringParamSet(p, m, s)
      [] p.kind = "int"     -> IntParamSet(p, m, s)
      [] p.kind = "strings" -> StringsParamSet(p, m, s)
      [] p.kind = "ints"    -> IntsParamSet(p, m, s)
      [] p.kind = "var"     -> VarOptSet(p, m, s)
      [] p.kind = "user"    -> UserSet(p, m, s)

String(p, m) ==
    CASE p.kind = "bool"    -> BoolParamString(p, m)
      [] p.kind = "string"  -> StringParamString(p, m)
      [] p.kind = "int"     -> IntParamString(p, m)
      [] p.kind = "strings" -> StringsParamString(p, m)
      [] p.kind = "ints"    -> IntsParamString(p, m)
      [] p.kind = "var"     -> VarOptString(p, m)
      [] p.kind = "user"    -> UserString(p, m)

\* into.(multiValued): the type assertion succeeds for the types with the
\* methods IsMultiValued and SetMulti
ImplementsMultiValued(p) ==
    CASE p.kind \in {"strings", "ints", "var"} -> TRUE
      [] p.kind = "user"                       -> UserImplementsMultiValued(p)
      [] OTHER                                 -> FALSE

IsMultiValued(p) ==
    CASE p.kind = "var"  -> VarOptIsMultiValued(p)
      [] p.kind = "user" -> UserIsMultiValued(p)
      [] OTHER           -> TRUE

SetMulti(p, m, vs) ==
    CASE p.kind = "strings" -> StringsParamSetMulti(p, m, vs)
      [] p.kind = "ints"    -> IntsParamSetMulti(p, m, vs)
      [] p.kind = "var"     -> VarOptSetMulti(p, m, vs)
      [] p.kind = "user"    -> UserSetMulti(p, m, vs)

\* value.(boolValued)
ImplementsBoolValued(p) ==
    CASE p.kind \in {"bool", "var"} -> TRUE
      [] p.kind = "user"            -> UserImplementsBoolValued(p)
      [] OTHER                      -> FALSE

IsBoolFlag(p) ==
    CASE p.kind = "var"  -> VarOptIsBoolFlag(p)
      [] p.kind = "user" -> UserIsBoolFlag(p)
      [] OTHER           -> TRUE

\* opt.isBool
isBool(o) == IF ImplementsBoolValued(o.value) THEN IsBoolFlag(o.value) ELSE FALSE

(***************************************************************************)
(* setFromEnv.  The log lists the calls the loop made: the variable name,  *)
(* the method, its argument and whether it returned an error.              *)
(***************************************************************************)
Getenv(ev) == IF ev \in DOMAIN env THEN env[ev] ELSE ""

Call(src, name, op, arg, err) ==
    [src |-> src, name |-> name, op |-> op, arg |-> arg, err |-> err]

\* mutant: the loop goes on to the next name after a successful call
RECURSIVE EnvLoopNoStop(_, _, _, _, _, _)
EnvLoopNoStop(revs, k, isMulti, p, m, log) ==
    IF k > Len(revs) THEN [p |-> p, m |-> m, log |-> log]
    ELSE LET ev == TrimSpace(revs[k])
             v  == Getenv(ev)
         IN  IF Len(ev) = 0 THEN EnvLoopNoStop(revs, k + 1, isMulti, p, m, log)
             ELSE IF Len(v) = 0 THEN EnvLoopNoStop(revs, k + 1, isMulti, p, m, log)
             ELSE IF ~isMulti
             THEN LET r == Set(p, m, v)
                      l == Append(log, Call("env", ev, "Set", v, r.err))
                  IN  EnvLoopNoStop(revs, k + 1, isMulti, r.p, r.m, l)
             ELSE LET vs == Split(v, ",")
                      r  == SetMulti(p, m, vs)
                      l  == Append(log, Call("env", ev, "SetMulti", vs, r.err))
                  IN  EnvLoopNoStop(revs, k + 1, isMulti, r.p, r.m, l)

\* the range loop of setFromEnv over the names revs[k..]
RECURSIVE EnvLoop(_, _, _, _, _, _)
EnvLoop(revs, k, isMulti, p, m, log) ==
    IF k > Len(revs) THEN [p |-> p, m |-> m, log |-> log]
    ELSE LET ev == TrimSpace(revs[k])
             v  == Getenv(ev)
         IN  IF Len(ev) = 0 THEN EnvLoop(revs, k + 1, isMulti, p, m, log)
             ELSE IF Len(v) = 0 THEN EnvLoop(revs, k + 1, isMulti, p, m, log)
             ELSE IF ~isMulti
             THEN LET r == Set(p, m, v)
                      l == Append(log, Call("env", ev, "Set", v, r.err))
                  IN  IF ~r.err THEN [p |-> r.p, m |-> r.m, log |-> l]
                      ELSE EnvLoop(revs, k + 1, isMulti, r.p, r.m, l)
             ELSE LET vs == Split(v, ",")
                      r  == SetMulti(p, m, vs)
                      l  == Append(log, Call("env", ev, "SetMulti", vs, r.err))
                  IN  IF Panicked(r) THEN [p |-> p, m |-> m, log |-> l, panic |-> TRUE]
                      ELSE IF ~r.err THEN [p |-> r.p, m |-> r.m, log |-> l]
                      ELSE EnvLoop(revs, k + 1, isMulti, r.p, r.m, l)

\* mutant: the multiValued capability is never asked for
setFromEnvNoMulti(into, m, envVars) ==
    IF Len(envVars) > 0
    THEN EnvLoop(Split(envVars, " "), 1, FALSE, into, m, <<>>)
    ELSE [p |-> into, m |-> m, log |-> <<>>]

\* mutant: the type assertion alone decides, IsMultiValued is not asked
setFromEnvAssertOnly(into, m, envVars) ==
    IF Len(envVars) > 0
    THEN EnvLoop(Split(envVars, " "), 1, ImplementsMultiValued(into), into, m, <<>>)
    ELSE [p |-> into, m |-> m, log |-> <<>>]

setFromEnv(into, m, envVars) ==
    LET isMulti == IF ImplementsMultiValued(into) THEN IsMultiValued(into) ELSE FALSE
    IN  IF Len(envVars) > 0
        THEN EnvLoop(Split(envVars, " "), 1, isMulti, into, m, <<>>)
        ELSE [p |-> into, m |-> m, log |-> <<>>]

(***************************************************************************)
(* Options.                                                                *)
(***************************************************************************)
mkOptStrs(optName) ==
    LET namesSl == Split(optName, " ")
    IN  [i \in 1..Len(namesSl) |->
            (IF Len(namesSl[i]) > 1 THEN "--" ELSE "-") \o namesSl[i]]

\* mutant: a spelling that is already indexed keeps its record
mkOptFirstWins(c, opt, m) ==
    LET r     == setFromEnv(opt.value, m, opt.envVar)
        names == mkOptStrs(opt.name)
        o     == [opt EXCEPT !.names = names, !.value = r.p]
        ptr   == Len(c.options) + 1
    IN  [options    |-> Append(c.options, o),
         optionsIdx |-> [n \in DOMAIN c.optionsIdx \cup Range(names) |->
                            IF n \in DOMAIN c.optionsIdx THEN c.optionsIdx[n] ELSE ptr],
         m          |-> r.m,
         log        |-> r.log]

\* c.mkOpt(opt) on the command c = [options, optionsIdx] with heap m.  &opt is
\* the position of the record in c.options.
\* A panic in setFromEnv unwinds mkOpt before anything is stored.
mkOpt(c, opt, m) ==
    LET names == mkOptStrs(opt.name)
        ptr   == Len(c.options) + 1
        store(r) ==
            IF Panicked(r)
            THEN [options |-> c.options, optionsIdx |-> c.optionsIdx,
                  m |-> r.m, log |-> r.log, panic |-> TRUE]
            ELSE [options    |-> Append(c.options,
                                        [opt EXCEPT !.names = names, !.value = r.p]),
                  optionsIdx |-> [n \in DOMAIN c.optionsIdx \cup Range(names) |->
                                     IF n \in Range(names) THEN ptr ELSE c.optionsIdx[n]],
                  m          |-> r.m,
                  log        |-> r.log]
    IN  store(setFromEnv(opt.value, m, opt.envVar))

(***************************************************************************)
(* The inputs of the model.                                                *)
(***************************************************************************)
Kinds == {"bool", "string", "int", "strings", "ints"}

\* the Value field of a declaration: the caller's initial value
Values(kind) ==
    CASE kind = "bool"    -> {FALSE, TRUE}
      [] kind = "string"  -> {"", "d"}
      [] kind = "int"     -> {0, 7}
      [] kind = "strings" -> {<<>>, <<"d">>}
      [] kind = "ints"    -> {<<>>, <<7>>}

EnvNames == {"A", "B"}

EnvValues == {"", "1", "5", "1,2,3", " 7 ,x"}

\* the EnvVar field of a declaration
EnvVarSpecs == {"", "A", "A B", " B  A"}

\* the Name field of a declaration
NameSpecs == {"f", "force", "f force", "verbose f", "", "f  x "}

\* command-line text handed to Set
Texts == {"", "1", "true", " b "}

\* command-line batches handed to SetMulti
Batches == {<<"1", "a">>, <<"1", "  ", "2">>, <<"a", " b ", "">>, <<"", "  ">>}

(***************************************************************************)
(* The state machine.                                                      *)
(***************************************************************************)
Init ==
    /\ env \in [EnvNames -> EnvValues]
    /\ mem = <<>>
    /\ options = <<>>
    /\ optionsIdx = <<>>
    /\ caller = <<>>
    /\ decl = <<>>
    /\ calls = <<>>
    /\ panicked = "no"

\* c.Bool(BoolOpt{...}), c.String(StringOpt{...}), ...: the caller's slot is
\* allocated holding Value, the parameter is bound to it, and the option is
\* registered with mkOpt; the slot's pointer is returned to the caller.
DeclareOpt(kind, value, name, envVar) ==
    LET a == Alloc(mem, value)
        o == [name |-> name, envVar |-> envVar, names |-> <<>>,
              value |-> NewParam(kind, a.addr)]
        r == mkOpt([options |-> options, optionsIdx |-> optionsIdx], o, a.m)
    IN  /\ options' = r.options
        /\ optionsIdx' = r.optionsIdx
        /\ mem' = r.m
        /\ caller' = Append(caller, a.addr)
        /\ decl' = Append(decl, [kind |-> kind, value |-> value])
        /\ calls' = Append(calls, r.log)
        /\ UNCHANGED <<env, panicked>>

CliCalls(i) == SelectSeq(calls[i], LAMBDA e : e.src = "cli")

\* the parser hands command-line text s to option i: opt.value.Set(s)
ParserSet(i, s) ==
    /\ panicked = "no"
    /\ i \in DOMAIN options
    /\ Len(CliCalls(i)) < MaxCalls
    /\ LET r == Set(options[i].value, mem, s)
       IN  /\ options' = [options EXCEPT ![i].value = r.p]
           /\ mem' = r.m
           /\ calls' = [calls EXCEPT ![i] = Append(@, Call("cli", "", "Set", s, r.err))]
    /\ UNCHANGED <<env, optionsIdx, caller, decl, panicked>>

\* the parser hands a batch to a multi-valued option i: opt.value.SetMulti(vs)
ParserSetMulti(i, vs) ==
    /\ panicked = "no"
    /\ i \in DOMAIN options
    /\ Len(CliCalls(i)) < MaxCalls
    /\ ImplementsMultiValued(options[i].value)
    /\ IsMultiValued(options[i].value)
    /\ LET r == SetMulti(options[i].value, mem, vs)
       IN  /\ options' = [options EXCEPT ![i].value = r.p]
           /\ mem' = r.m
           /\ calls' = [calls EXCEPT ![i] = Append(@, Call("cli", "", "SetMulti", vs, r.err))]
    /\ UNCHANGED <<env, optionsIdx, caller, decl, panicked>>

\* One parameter, from its declaration through the parser's calls.
DeclareOne ==
    /\ options = <<>>
    /\ \E kind \in Kinds : \E value \in Values(kind) : \E envVar \in EnvVarSpecs :
          DeclareOpt(kind, value, "f force", envVar)

DoSet == \E i \in DOMAIN options : \E s \in Texts : ParserSet(i, s)

DoSetMulti == \E i \in DOMAIN options : \E vs \in Batches : ParserSetMulti(i, vs)

Next == DeclareOne \/ DoSet \/ DoSetMulti

Spec == Init /\ [][Next]_vars

\* One command, several options registered on it.
InitCmd ==
    /\ env = [n \in EnvNames |-> IF n = "A" THEN "1" ELSE ""]
    /\ mem = <<>>
    /\ options = <<>>
    /\ optionsIdx = <<>>
    /\ caller = <<>>
    /\ decl = <<>>
    /\ calls = <<>>
    /\ panicked = "no"

DeclareMany ==
    /\ Len(options) < MaxOpts
    /\ \E kind \in {"string", "ints"} : \E name \in NameSpecs : \E envVar \in {"", "A"} :
          DeclareOpt(kind, CHOOSE v \in Values(kind) : Len(v) = 0, name, envVar)

NextCmd == DeclareMany

SpecCmd == InitCmd /\ [][NextCmd]_vars

\* One parameter of any type, user-settable ones included.
EnvValuesVar == {"", "x", "1,,2"}

InitVar ==
    /\ env \in [EnvNames -> EnvValuesVar]
    /\ mem = <<>>
    /\ options = <<>>
    /\ optionsIdx = <<>>
    /\ caller = <<>>
    /\ decl = <<>>
    /\ calls = <<>>
    /\ panicked = "no"

\* the state after a registration of the parameter p with mkOpt's result r
Registered(r, slot, p) ==
    /\ mem' = r.m
    /\ options' = r.options
    /\ optionsIdx' = r.optionsIdx
    /\ caller' = IF Panicked(r) THEN caller ELSE Append(caller, slot)
    /\ decl' = IF Panicked(r) THEN decl
               ELSE Append(decl, [kind |-> p.kind, value |-> <<>>])
    /\ calls' = IF Panicked(r) THEN calls ELSE Append(calls, r.log)
    /\ panicked' = IF Panicked(r) THEN "env" ELSE "no"

\* the caller's value, its list of texts stored at into
UserValue(into, multi, bool) ==
    [kind |-> "user", into |-> into, multi |-> multi, bool |-> bool]

\* c.VarOpt(name, value, desc): the caller's value is handed to mkOpt as it
\* is, c.mkOpt(opt{value: value}); c.VarOpt itself leaves envVar empty.  A
\* panic in setFromEnv unwinds the registration.
DeclareValue(multi, bool, name, envVar) ==
    LET a == Alloc(mem, <<>>)
        u == UserValue(a.addr, multi, bool)
        o == [name |-> name, envVar |-> envVar, names |-> <<>>, value |-> u]
    IN  /\ panicked = "no"
        /\ Registered(mkOpt([options |-> options, optionsIdx |-> optionsIdx], o, a.m),
                      a.addr, u)
        /\ UNCHANGED env

\* the same with the VarOpt record around the caller's value
DeclareVarOpt(multi, bool, name, envVar) ==
    LET a  == Alloc(mem, <<>>)
        vo == [kind |-> "var", Value |-> UserValue(a.addr, multi, bool)]
        o  == [name |-> name, envVar |-> envVar, names |-> <<>>, value |-> vo]
    IN  /\ panicked = "no"
        /\ Registered(mkOpt([options |-> options, optionsIdx |-> optionsIdx], o, a.m),
                      a.addr, vo)
        /\ UNCHANGED env

\* a holder of the value calls SetMulti on it, whatever IsMultiValued answers
CallSetMulti(i, vs) ==
    /\ panicked = "no"
    /\ i \in DOMAIN options
    /\ Len(CliCalls(i)) < MaxCalls
    /\ ImplementsMultiValued(options[i].value)
    /\ LET r == SetMulti(options[i].value, mem, vs)
       IN  /\ options' = [options EXCEPT ![i].value = r.p]
           /\ mem' = r.m
           /\ calls' = [calls EXCEPT ![i] = Append(@, Call("cli", "", "SetMulti", vs, r.err))]
           /\ panicked' = IF Panicked(r) THEN "cli" ELSE "no"
    /\ UNCHANGED <<env, optionsIdx, caller, decl>>

Capability == {"none", "yes", "no"}

DeclareValueOne ==
    /\ options = <<>>
    /\ \E multi \in Capability : \E bool \in Capability : \E envVar \in {"", "A B"} :
          DeclareValue(multi, bool, "f force", envVar)

DeclareVarOptOne ==
    /\ options = <<>>
    /\ \E multi \in Capability : \E bool \in Capability : \E envVar \in {"", "A B"} :
          DeclareVarOpt(multi, bool, "f force", envVar)

DeclareBuiltinOne ==
    /\ options = <<>>
    /\ panicked = "no"
    /\ \E kind \in {"string", "ints"} : \E envVar \in {"", "A B"} :
          DeclareOpt(kind, CHOOSE v \in Values(kind) : Len(v) = 0, "f force", envVar)

DoCallSetMulti == \E i \in DOMAIN options : \E vs \in Batches : CallSetMulti(i, vs)

NextVar == DeclareValueOne \/ DeclareVarOptOne \/ DeclareBuiltinOne \/ DoSet \/ DoCallSetMulti

SpecVar == InitVar /\ [][NextVar]_vars

\* One boolean or integer parameter and the texts of the literal grammars.
LitTexts ==
    {"1", "t", "T", "TRUE", "true", "True", "0", "f", "F", "FALSE", "false", "False",
     "", "123", "01", "-7", "+5", "abc", "9223372036854775808", "-"}

DeclareScalarOne ==
    /\ options = <<>>
    /\ \E kind \in {"bool", "int"} : \E value \in Values(kind) : \E envVar \in {"", "A"} :
          DeclareOpt(kind, value, "f force", envVar)

DoSetLit == \E i \in DOMAIN options : \E s \in LitTexts : ParserSet(i, s)

NextLit == DeclareScalarOne \/ DoSetLit

SpecLit == InitCmd /\ [][NextLit]_vars

(***************************************************************************)
(* What the claims speak of.                                               *)
(***************************************************************************)
Param(i) == options[i].value

\* the value the parameter holds: *p.into
Stored(i) == mem[Param(i).into]

\* the value the caller reads through the pointer the declaration returned
Slot(i) == mem[caller[i]]

Last(seq) == seq[Len(seq)]

EnvCalls(i) == SelectSeq(calls[i], LAMBDA e : e.src = "env")

Trimmed(vs) == [k \in 1..Len(vs) |-> TrimSpace(vs[k])]

\* the integers of the elements of a batch that are not empty after trimming
BatchInts(vs) ==
    LET kept == SelectSeq(Trimmed(vs), LAMBDA v : v # "")
    IN  [k \in 1..Len(kept) |-> ParseInt(kept[k]).i]

BatchParses(vs) ==
    \A k \in 1..Len(vs) : TrimSpace(vs[k]) = "" \/ ~ParseInt(TrimSpace(vs[k])).err

\* C1: every parameter stays bound to the caller's slot it was created with:
\* the value read through the caller's pointer is the value the parameter
\* holds and renders with String.
C1_BoundToCallerSlot ==
    \A i \in DOMAIN options :
        /\ Param(i).into = caller[i]
        /\ Slot(i) = Stored(i)
        /\ String(NewParam(Param(i).kind, caller[i]), mem) = String(Param(i), mem)

\* C2: a failed Set (boolean, integer, repeated-integer) or SetMulti
\* (repeated-integer) leaves the parameter and all storage as before the call.
C2_FailedCallLeavesStorage ==
    [][\A i \in DOMAIN options :
          (/\ Len(calls'[i]) = Len(calls[i]) + 1
           /\ Last(calls'[i]).err)
          => /\ Param(i).kind \in {"bool", "int", "ints"}
             /\ mem' = mem
             /\ options'[i].value = options[i].value
             /\ mem'[caller'[i]] = mem[caller[i]]
             /\ mem'[options'[i].value.into] = mem[options[i].value.into]]_vars

\* a repeated-integer SetMulti failed on a batch whose first element parses,
\* called on a parameter that holds a non-empty sequence
C2_Witness ==
    \E i \in DOMAIN options :
        /\ Param(i).kind = "ints"
        /\ calls[i] # <<>>
        /\ Last(calls[i]).op = "SetMulti"
        /\ Last(calls[i]).err
        /\ Last(calls[i]).arg = <<"1", "a">>
        /\ Stored(i) = <<7, 1>>

\* the index in log of its last SetMulti call, 0 when there is none
LastMulti(log) ==
    LET ks == {k \in 1..Len(log) : log[k].op = "SetMulti"}
    IN  IF ks = {} THEN 0 ELSE CHOOSE k \in ks : \A j \in ks : j <= k

SetArgs(log) == [k \in 1..Len(log) |-> log[k].arg]

\* C3: a repeated-string parameter holds the trimmed elements of its most
\* recent SetMulti batch (its initial sequence when there was none) followed
\* by the raw argument of every later Set, in call order; no call fails.
C3_StringsSequence ==
    \A i \in DOMAIN options :
        Param(i).kind = "strings" =>
            LET log  == calls[i]
                k    == LastMulti(log)
                base == IF k = 0 THEN decl[i].value ELSE Trimmed(log[k].arg)
            IN  /\ \A j \in 1..Len(log) : ~log[j].err
                /\ Stored(i) = base \o SetArgs(SubSeq(log, k + 1, Len(log)))

\* SetMulti(["a", " b ", ""]) then Set(" b "): trimmed batch, raw Set argument
C3_Witness ==
    \E i \in DOMAIN options :
        /\ Param(i).kind = "strings"
        /\ Len(calls[i]) >= 2
        /\ calls[i][Len(calls[i]) - 1].op = "SetMulti"
        /\ Last(calls[i]).op = "Set"
        /\ Stored(i) = <<"a", "b", "", " b ">>

\* C4: a successful repeated-integer SetMulti replaces the sequence by the
\* integers of the batch elements that are non-empty after trimming, in batch
\* order; a batch of only empty elements leaves the empty sequence.
C4_IntsSetMultiReplaces ==
    \A i \in DOMAIN options :
        (/\ Param(i).kind = "ints"
         /\ calls[i] # <<>>
         /\ Last(calls[i]).op = "SetMulti")
        => /\ Last(calls[i]).err = ~BatchParses(Last(calls[i]).arg)
           /\ ~Last(calls[i]).err => Stored(i) = BatchInts(Last(calls[i]).arg)
           /\ (\A k \in 1..Len(Last(calls[i]).arg) : TrimSpace(Last(calls[i]).arg[k]) = "")
                 => Stored(i) = <<>>

\* SetMulti(["1", "  ", "2"]) on a parameter that held [7]: the result is [1, 2]
C4_Witness ==
    \E i \in DOMAIN options :
        /\ Param(i).kind = "ints"
        /\ decl[i].value = <<7>>
        /\ calls[i] # <<>>
        /\ Last(calls[i]).op = "SetMulti"
        /\ Last(calls[i]).arg = <<"1", "  ", "2">>
        /\ Stored(i) = <<1, 2>>

\* the candidate names of setFromEnv: the names of the list, trimmed, that are
\* not empty and name a variable that is set to a non-empty value, in order
Candidates(envVars) ==
    SelectSeq(Trimmed(Split(envVars, " ")), LAMBDA ev : ev # "" /\ Getenv(ev) # "")

\* whether the value v of an environment variable coerces to the kind
EnvValueOk(kind, v) ==
    CASE kind = "bool"    -> ~ParseBool(v).err
      [] kind = "string"  -> TRUE
      [] kind = "int"     -> ~ParseInt(v).err
      [] kind = "strings" -> TRUE
      [] kind = "ints"    -> BatchParses(Split(v, ","))

\* the value a parameter of the kind holds when it is derived from v alone
EnvValueOf(kind, v) ==
    CASE kind = "bool"    -> ParseBool(v).b
      [] kind = "string"  -> v
      [] kind = "int"     -> ParseInt(v).i
      [] kind = "strings" -> Trimmed(Split(v, ","))
      [] kind = "ints"    -> BatchInts(Split(v, ","))

\* C5: setFromEnv tries the candidate names left to right and stops at the
\* first whose call succeeds: every call before the last one failed, no call
\* follows a success, names that are unset or empty get no call, at most one
\* call wrote, and the value held after registration is derived from the
\* successful name alone.
C5_FirstSuccessWins ==
    \A i \in DOMAIN options :
        LET log  == EnvCalls(i)
            cand == Candidates(options[i].envVar)
            kind == decl[i].kind
        IN  /\ Len(log) <= Len(cand)
            /\ \A k \in 1..Len(log) :
                  /\ log[k].name = cand[k]
                  /\ log[k].err = ~EnvValueOk(kind, env[cand[k]])
            /\ \A k \in 1..(Len(log) - 1) : log[k].err
            /\ Len(log) < Len(cand) => (log # <<>> /\ ~Last(log).err)
            /\ Cardinality({k \in 1..Len(log) : ~log[k].err}) <= 1
            /\ (log # <<>> /\ ~Last(log).err /\ CliCalls(i) = <<>>)
                  => Stored(i) = EnvValueOf(kind, env[Last(log).name])

\* A = "1" wins for an integer although B = "5" is set and valid too
C5_Witness ==
    \E i \in DOMAIN options :
        /\ decl[i].kind = "int"
        /\ options[i].envVar = "A B"
        /\ env["A"] = "1"
        /\ env["B"] = "5"
        /\ Len(EnvCalls(i)) = 1
        /\ CliCalls(i) = <<>>
        /\ Stored(i) = 1

\* C6: when no candidate succeeds the parameter is still bound to the caller's
\* slot, which holds the declared initial value.
C6_NoCandidateKeepsDefault ==
    \A i \in DOMAIN options :
        ((\A k \in 1..Len(EnvCalls(i)) : EnvCalls(i)[k].err) /\ CliCalls(i) = <<>>)
        => /\ Param(i).into = caller[i]
           /\ Slot(i) = decl[i].value
           /\ Stored(i) = decl[i].value

\* both variables are set, neither coerces to a boolean, the default TRUE stays
C6_Witness ==
    \E i \in DOMAIN options :
        /\ decl[i].kind = "bool"
        /\ decl[i].value = TRUE
        /\ Len(EnvCalls(i)) = 2
        /\ \A k \in 1..2 : EnvCalls(i)[k].err
        /\ CliCalls(i) = <<>>
        /\ Slot(i) = TRUE

\* the value command-line text gives a parameter of the kind by itself
CliValue(kind, call) ==
    IF call.op = "SetMulti"
    THEN (IF kind = "strings" THEN Trimmed(call.arg) ELSE BatchInts(call.arg))
    ELSE CASE kind = "bool"    -> ParseBool(call.arg).b
           [] kind = "string"  -> call.arg
           [] kind = "int"     -> ParseInt(call.arg).i
           [] kind = "strings" -> <<call.arg>>
           [] kind = "ints"    -> <<ParseInt(call.arg).i>>

\* C7: when registration stored a value from the environment and the parser
\* then makes a successful Set or SetMulti with command-line text, the value
\* held is the one given on the command line.
C7_CommandLineWins ==
    \A i \in DOMAIN options :
        (/\ EnvCalls(i) # <<>>
         /\ ~Last(EnvCalls(i)).err
         /\ Len(CliCalls(i)) = 1
         /\ ~CliCalls(i)[1].err)
        => Stored(i) = CliValue(decl[i].kind, CliCalls(i)[1])

\* C8: setFromEnv hands a multi-valued parameter the comma-split value as one
\* SetMulti batch and every other parameter the whole value in one Set call.
C8_DispatchOnMultiValued ==
    \A i \in DOMAIN options :
        LET log  == EnvCalls(i)
            kind == decl[i].kind
            won(v) == /\ log # <<>>
                      /\ ~Last(log).err
                      /\ env[Last(log).name] = v
                      /\ CliCalls(i) = <<>>
        IN  /\ \A k \in 1..Len(log) :
                  IF kind \in {"strings", "ints"}
                  THEN /\ log[k].op = "SetMulti"
                       /\ log[k].arg = Split(env[log[k].name], ",")
                  ELSE /\ log[k].op = "Set"
                       /\ log[k].arg = env[log[k].name]
            /\ (kind = "ints" /\ won("1,2,3")) => Stored(i) = <<1, 2, 3>>
            /\ (kind = "strings" /\ won("1,2,3")) => Stored(i) = <<"1", "2", "3">>
            /\ (kind = "strings" /\ won(" 7 ,x")) => Stored(i) = <<"7", "x">>
            /\ (kind = "string" /\ won("1,2,3")) => Stored(i) = "1,2,3"
            /\ (kind = "string" /\ won(" 7 ,x")) => Stored(i) = " 7 ,x"
            /\ (kind = "int" /\ log # <<>> /\ env[Last(log).name] = "1,2,3") => Last(log).err

\* B = "1,2,3" on a repeated-integer parameter yields [1, 2, 3]
C8_Witness ==
    \E i \in DOMAIN options :
        /\ decl[i].kind = "ints"
        /\ EnvCalls(i) # <<>>
        /\ Last(EnvCalls(i)).name = "B"
        /\ Last(EnvCalls(i)).arg = <<"1", "2", "3">>
        /\ CliCalls(i) = <<>>
        /\ Stored(i) = <<1, 2, 3>>

\* the spellings the claim derives from a name specification
ClaimedOptStrs(optName) ==
    LET tokens == Split(optName, " ")
    IN  [k \in 1..Len(tokens) |->
            (IF Len(tokens[k]) = 1 THEN "-" ELSE "--") \o tokens[k]]

\* C9: mkOptStrs gives one entry per space-separated token, in order: the
\* token with one dash when its length is exactly one, with two dashes
\* otherwise (tokens of length zero included).
C9_NameDerivation ==
    \A i \in DOMAIN options : options[i].names = ClaimedOptStrs(options[i].name)

\* C10 as claimed: every derived spelling of every registered option maps to
\* that option's record, whatever was registered afterwards.
C10_EveryAliasResolves ==
    \A i \in DOMAIN options :
        \A s \in Range(options[i].names) :
            s \in DOMAIN optionsIdx /\ optionsIdx[s] = i

\* the options that derive the spelling s
Deriving(s) == {j \in DOMAIN options : s \in Range(options[j].names)}

\* C10 as amended: every derived spelling of every registered option maps to
\* the record, held in the option list, of the most recently registered
\* option that derives that spelling; the index has no other key.
C10_AliasResolvesToLatest ==
    /\ DOMAIN optionsIdx = UNION {Range(options[j].names) : j \in DOMAIN options}
    /\ \A i \in DOMAIN options :
          \A s \in Range(options[i].names) :
              /\ s \in DOMAIN optionsIdx
              /\ optionsIdx[s] \in Deriving(s)
              /\ \A j \in Deriving(s) : j <= optionsIdx[s]

\* two options derive "-f": the index resolves it to the later one, and still
\* resolves the first option's other spelling to the first
C10_Witness ==
    /\ Len(options) >= 2
    /\ options[1].names = <<"-f", "--force">>
    /\ options[2].names = <<"--verbose", "-f">>
    /\ optionsIdx["-f"] = 2
    /\ optionsIdx["--force"] = 1

\* C11: SetMulti on a VarOpt wrapper panics exactly when the wrapped value has
\* no batch capability or has it and reports false, and then writes nothing;
\* otherwise it is the wrapped value's SetMulti, result included.  The
\* wrapper's IsMultiValued and IsBoolFlag answer what the wrapped value
\* answers, and false when the wrapped value lacks the capability.
C11_VarSetMultiFatal ==
    /\ [](\A i \in DOMAIN options :
            options[i].value.kind = "var" =>
                LET vo == options[i].value
                    u  == vo.Value
                IN  /\ IsMultiValued(vo) = (u.multi = "yes")
                    /\ IsBoolFlag(vo) = (u.bool = "yes")
                    /\ isBool(options[i]) = (u.bool = "yes"))
    /\ [][\A i \in DOMAIN options :
            (/\ options[i].value.kind = "var"
             /\ Len(calls'[i]) = Len(calls[i]) + 1
             /\ Last(calls'[i]).op = "SetMulti")
            => LET u == options[i].value.Value
                   r == UserSetMulti(u, mem, Last(calls'[i]).arg)
               IN  IF u.multi # "yes"
                   THEN /\ panicked' = "cli"
                        /\ mem' = mem
                        /\ options' = options
                   ELSE /\ panicked' = "no"
                        /\ Last(calls'[i]).err = r.err
                        /\ mem' = r.m]_vars

\* SetMulti was called on a wrapper whose value has the capability and
\* reports false: the program panicked
C11_Witness ==
    /\ panicked = "cli"
    /\ \E i \in DOMAIN options :
          /\ options[i].value.kind = "var"
          /\ options[i].value.Value.multi = "no"
          /\ options[i].value.Value.bool = "none"
          /\ Last(calls[i]).op = "SetMulti"

(***************************************************************************)
(* Literal grammars of the boolean and integer parameters (SpecLit).       *)
(***************************************************************************)
TrueLiterals == {"1", "t", "T", "TRUE", "true", "True"}

FalseLiterals == {"0", "f", "F", "FALSE", "false", "False"}

\* C12: Set on a boolean parameter succeeds for every boolean literal, stores
\* its truth value, String then gives "true" or "false" accordingly and Set
\* of that text changes nothing; Set fails for every other text, the empty
\* text and "123" among them.
C12_BoolLiterals ==
    /\ {"", "123"} \subseteq LitTexts \ (TrueLiterals \cup FalseLiterals)
    /\ \A i \in DOMAIN options :
          (decl[i].kind = "bool" /\ Len(calls[i]) > 0) =>
              IF Last(calls[i]).arg \in TrueLiterals \cup FalseLiterals
              THEN /\ ~Last(calls[i]).err
                   /\ Stored(i) = (Last(calls[i]).arg \in TrueLiterals)
                   /\ String(Param(i), mem) =
                          (IF Last(calls[i]).arg \in TrueLiterals THEN "true" ELSE "false")
                   /\ Set(Param(i), mem, String(Param(i), mem)) = Ret(FALSE, Param(i), mem)
              ELSE Last(calls[i]).err

\* a boolean declared false refused "123" and then took "T"
C12_Witness ==
    \E i \in DOMAIN options :
        /\ decl[i] = [kind |-> "bool", value |-> FALSE]
        /\ Len(calls[i]) = 2
        /\ calls[i][1].arg = "123" /\ calls[i][1].err
        /\ calls[i][2].arg = "T" /\ ~calls[i][2].err
        /\ Stored(i) = TRUE
        /\ String(Param(i), mem) = "true"

\* the digits of a text after its optional sign
Unsigned(s) ==
    IF Len(s) > 0 /\ Char(s, 1) \in {"+", "-"} THEN SubSeq(s, 2, Len(s)) ELSE s

\* a base-10 signed integer text: an optional sign and one or more digits
IntegerText(s) ==
    /\ Len(Unsigned(s)) > 0
    /\ \A k \in 1..Len(Unsigned(s)) : IsDigit(Char(Unsigned(s), k))

FitsInt64(s) ==
    InRange(Unsigned(s), IF Char(s, 1) = "-" THEN MinInt64Digits ELSE MaxInt64Digits)

NumericValue(s) ==
    IF Char(s, 1) = "-" THEN 0 - DigitsVal(Unsigned(s)) ELSE DigitsVal(Unsigned(s))

Successes(i) == SelectSeq(calls[i], LAMBDA e : ~e.err)

\* C13 as stated: Set on an integer parameter succeeds for every base-10
\* signed integer text and stores its numeric value, and fails for every
\* other text.
C13_EveryIntegerTextSets ==
    \A i \in DOMAIN options :
        (decl[i].kind = "int" /\ Len(calls[i]) > 0) =>
            IF IntegerText(Last(calls[i]).arg)
            THEN ~Last(calls[i]).err /\ Stored(i) = NumericValue(Last(calls[i]).arg)
            ELSE Last(calls[i]).err

\* C13: Set on an integer parameter succeeds for every base-10 signed integer
\* text whose value fits 64 bits, leading zeros included, and stores its
\* numeric value ("01" stores 1, rendered "1"); it fails for every other
\* text; the value held is the numeric value of the text of the last
\* successful Set, the declared value before any.
C13_IntegerTextsSet ==
    \A i \in DOMAIN options :
        decl[i].kind = "int" =>
            /\ Len(calls[i]) > 0 =>
                  IF IntegerText(Last(calls[i]).arg) /\ FitsInt64(Last(calls[i]).arg)
                  THEN /\ ~Last(calls[i]).err
                       /\ Stored(i) = NumericValue(Last(calls[i]).arg)
                  ELSE Last(calls[i]).err
            /\ (Len(calls[i]) > 0 /\ Last(calls[i]).arg = "01") =>
                  Stored(i) = 1 /\ String(Param(i), mem) = "1"
            /\ (Len(calls[i]) > 0 /\ Last(calls[i]).arg = "-7") =>
                  Stored(i) = 0 - 7 /\ String(Param(i), mem) = "-7"
            /\ (Len(calls[i]) > 0 /\ Last(calls[i]).arg = "+5") =>
                  Stored(i) = 5 /\ String(Param(i), mem) = "5"
            /\ Stored(i) = IF Len(Successes(i)) = 0 THEN decl[i].value
                           ELSE NumericValue(Last(Successes(i)).arg)

\* an integer took "01" and then refused a text beyond 64 bits
C13_Witness ==
    \E i \in DOMAIN options :
        /\ decl[i] = [kind |-> "int", value |-> 7]
        /\ Len(calls[i]) = 2
        /\ calls[i][1].arg = "01" /\ ~calls[i][1].err
        /\ calls[i][2].arg = MinInt64Digits /\ calls[i][2].err
        /\ Stored(i) = 1
        /\ String(Param(i), mem) = "1"

\* C14: setFromEnv never panics, whatever the parameter (built-in, the
\* caller's value, a VarOpt wrapper around a value with or without the batch
\* capability) and the environment: every SetMulti it calls is on a parameter
\* that has the batch capability and whose IsMultiValued answers true.
C14_EnvNeverFatal ==
    /\ panicked # "env"
    /\ \A i \in DOMAIN options : \A k \in DOMAIN calls[i] :
          (calls[i][k].src = "env" /\ calls[i][k].op = "SetMulti") =>
              ImplementsMultiValued(Param(i)) /\ IsMultiValued(Param(i))

\* a wrapper around a value that has the capability and reports false was
\* registered with a variable holding a list: setFromEnv called Set
C14_Witness ==
    /\ panicked = "no"
    /\ \E i \in DOMAIN options :
          /\ Param(i).kind = "var"
          /\ Param(i).Value.multi = "no"
          /\ options[i].envVar = "A B"
          /\ Len(calls[i]) = 1
          /\ calls[i][1] = Call("env", "A", "Set", "1,,2", FALSE)
          /\ mem[Param(i).Value.into] = <<"1,,2">>

====
